---------------------------- MODULE Spec2Model ----------------------------
(***************************************************************************)
(* Model of the WS22 dashboard (src/app/dashboard.py): the cached dataset  *)
(* loader, the atom labeler, the property extractors, the internal         *)
(* coordinate engine and the XYZ writer.                                   *)
(*                                                                         *)
(* Strings the code takes apart (molecule names, the atom indices text)    *)
(* are sequences of one character strings.  Floating point values are      *)
(* integers on a grid.  An array is a sequence along its first axis.       *)
(***************************************************************************)
EXTENDS Integers, Sequences, FiniteSets, TLC

VARIABLES
    cache,        \* st.cache memo of get_data_zenodo: argument |-> dataset
    loadLog,      \* one record per get_data_zenodo call, oldest first
    loadResult,   \* what the last get_data_zenodo call gave its caller
    zField,       \* z_to_labels: the dataset's Z field, flattened
    labelsOut,    \* z_to_labels: its outcome
    icCoords,     \* get_internal_coords: coords, one geometry per conformation
    icLabels,     \* get_internal_coords: labels
    icIndices,    \* get_internal_coords: indices
    icOut,        \* get_internal_coords: its outcome
    data,         \* line 80: the loaded dataset, field name |-> array
    call,         \* the extractor called and the widget values it read
    df,           \* line 300: the extractor's outcome, a table or an exception
    stats,        \* lines 323-325: the statistics table shown, if any
    coordsText,   \* line 329: the text typed into the atom indices input
    icdf,         \* line 332: build_ic_dataframe's outcome
    icStats,      \* lines 346-348: the statistics table of the geometry tab
    idx,          \* line 357: the geometry slider's value
    xyzGeom,      \* line 360: the geometry text view_molecule returned
    pc            \* where the script run stands

loaderVars == <<cache, loadLog, loadResult>>
labelVars == <<zField, labelsOut>>
icVars == <<icCoords, icLabels, icIndices, icOut>>
extractVars == <<data, call, df, stats>>
renderVars == <<coordsText, icdf, icStats, idx, xyzGeom, pc>>

vars == <<cache, loadLog, loadResult, zField, labelsOut,
          icCoords, icLabels, icIndices, icOut, data, call, df, stats,
          coordsText, icdf, icStats, idx, xyzGeom, pc>>

\* Outcomes of a call: a returned value, a raised exception, or not called yet.
Ok(v) == [tag |-> "ok", val |-> v]
Raised(kind) == [tag |-> "error", kind |-> kind]
Pending == [tag |-> "pending"]

-----------------------------------------------------------------------------
(* Dataset loader: get_data_zenodo under @st.cache                         *)

\* Number of get_data_zenodo calls explored.
MaxCalls == 3

\* Molecule names handed to the loader.
Thymine == <<"T","h","y","m","i","n","e">>
thymine == <<"t","h","y","m","i","n","e">>
SMA == <<"S","M","A">>
sma == <<"s","m","a">>
nitrophenol2 == <<"2","-","n","i","t","r","o","p","h","e","n","o","l">>
nitrophenol == <<"n","i","t","r","o","p","h","e","n","o","l">>

MoleculeNames == {Thymine, thymine, SMA, sma, nitrophenol2, nitrophenol}

UpperCase == <<"A","B","C","D","E","F","G","H","I","J","K","L","M",
               "N","O","P","Q","R","S","T","U","V","W","X","Y","Z">>
LowerCase == <<"a","b","c","d","e","f","g","h","i","j","k","l","m",
               "n","o","p","q","r","s","t","u","v","w","x","y","z">>

\* str.lower() on one character.
lower_char(c) ==
    IF \E i \in 1..Len(UpperCase) : UpperCase[i] = c
    THEN LowerCase[CHOOSE i \in 1..Len(UpperCase) : UpperCase[i] = c]
    ELSE c

\* str.lower()
lower(s) == [i \in 1..Len(s) |-> lower_char(s[i])]

\* str.replace('2-', ''): one left to right pass, the result is not rescanned.
RECURSIVE replace_2dash(_)
replace_2dash(s) ==
    IF Len(s) = 0 THEN <<>>
    ELSE IF Len(s) >= 2 /\ s[1] = "2" /\ s[2] = "-"
         THEN replace_2dash(SubSeq(s, 3, Len(s)))
         ELSE <<s[1]>> \o replace_2dash(SubSeq(s, 2, Len(s)))

\* Line 59: molecule.lower().replace('2-','')
normalize(molecule) == replace_2dash(lower(molecule))

\* @st.cache memoizes on the hash of the call's arguments: the name as passed,
\* since line 59 normalizes inside the decorated function.
CacheKey(molecule) == molecule

\* The loaded archive: the content of the remote file named by the
\* normalized name (lines 60-65).
Dataset(molecule) == [tag |-> "data", file |-> normalize(molecule)]

LoadError == [tag |-> "error"]

\* A variant loader that memoizes the failure too.
get_data_zenodo_memo_error(molecule, ok) ==
    /\ Len(loadLog) < MaxCalls
    /\ IF CacheKey(molecule) \in DOMAIN cache
       THEN /\ loadResult' = cache[CacheKey(molecule)]
            /\ loadLog' = Append(loadLog, [arg |-> molecule, fetches |-> 0, ok |-> TRUE])
            /\ cache' = cache
       ELSE /\ loadResult' = IF ok THEN Dataset(molecule) ELSE LoadError
            /\ loadLog' = Append(loadLog, [arg |-> molecule, fetches |-> 1, ok |-> ok])
            /\ cache' = [k \in DOMAIN cache \cup {CacheKey(molecule)} |->
                           IF k \in DOMAIN cache THEN cache[k]
                           ELSE IF ok THEN Dataset(molecule) ELSE LoadError]

\* Lines 57-65.  A memo hit returns the stored dataset without running the
\* body.  A miss runs the body: one requests.get; a failed transfer
\* (requests.get raising) or an error status (raise_for_status) raises out of
\* the call and nothing is stored; otherwise the decoded archive is stored
\* under the memo key and returned.  ok is whether the transfer succeeds.
get_data_zenodo(molecule, ok) ==
    /\ Len(loadLog) < MaxCalls
    /\ IF CacheKey(molecule) \in DOMAIN cache
       THEN /\ loadResult' = cache[CacheKey(molecule)]
            /\ loadLog' = Append(loadLog, [arg |-> molecule, fetches |-> 0, ok |-> TRUE])
            /\ cache' = cache
       ELSE /\ loadResult' = IF ok THEN Dataset(molecule) ELSE LoadError
            /\ loadLog' = Append(loadLog, [arg |-> molecule, fetches |-> 1, ok |-> ok])
            /\ cache' = IF ok
                        THEN [k \in DOMAIN cache \cup {CacheKey(molecule)} |->
                                IF k \in DOMAIN cache THEN cache[k] ELSE Dataset(molecule)]
                        ELSE cache

Load ==
    /\ \E molecule \in MoleculeNames, ok \in BOOLEAN : get_data_zenodo(molecule, ok)
    /\ UNCHANGED <<labelVars, icVars, extractVars, renderVars>>

InitLoader ==
    /\ cache = <<>>
    /\ loadLog = <<>>
    /\ loadResult = [tag |-> "none"]

\* Number of network fetches issued so far.
Fetches == Cardinality({i \in 1..Len(loadLog) : loadLog[i].fetches = 1})

\* Normalized names of the molecules loaded successfully so far.
LoadedMolecules == {normalize(loadLog[i].arg) : i \in {j \in 1..Len(loadLog) : loadLog[j].ok}}

\* C1: after any sequence of successful loads, the number of fetches equals
\* the number of distinct normalized names loaded: names differing only in
\* case (or in a '2-') share one cache entry and one fetch.
C1_OneFetchPerNormalizedName ==
    (\A i \in 1..Len(loadLog) : loadLog[i].ok) => Fetches = Cardinality(LoadedMolecules)

\* C2: a load whose fetch fails makes exactly one fetch attempt, gives an
\* error and not a dataset, and leaves the cache unchanged, the failed name
\* absent from it; and a load of a name that is not cached (such as one
\* whose last load failed) fetches.
C2_FailureSurfacedNotCached ==
    [][ /\ (Len(loadLog') = Len(loadLog) + 1 /\ ~loadLog'[Len(loadLog')].ok) =>
            /\ loadLog'[Len(loadLog')].fetches = 1
            /\ loadResult' = LoadError
            /\ cache' = cache
            /\ loadLog'[Len(loadLog')].arg \notin DOMAIN cache'
        /\ (Len(loadLog') = Len(loadLog) + 1 /\ Len(loadLog) >= 1
              /\ ~loadLog[Len(loadLog)].ok
              /\ loadLog'[Len(loadLog')].arg = loadLog[Len(loadLog)].arg) =>
            loadLog'[Len(loadLog')].fetches = 1
      ]_vars

\* A failed load of a name followed by a load of the same name that fetched
\* again and succeeded.
C2_Witness ==
    \E i \in 1..Len(loadLog) :
        /\ i + 1 <= Len(loadLog)
        /\ ~loadLog[i].ok /\ loadLog[i].fetches = 1
        /\ loadLog[i+1].arg = loadLog[i].arg
        /\ loadLog[i+1].fetches = 1 /\ loadLog[i+1].ok
        /\ loadResult = Dataset(loadLog[i].arg)

-----------------------------------------------------------------------------
(* Atom labeler: z_to_labels                                               *)

\* Longest flattened Z field explored.
MaxZLen == 3

\* Atomic numbers explored: the four of the lookup and fluorine, which the
\* lookup lacks.
ZValues == {1, 6, 7, 8, 9}

\* Line 85: atom_types
atom_types == [z \in {1, 6, 7, 8} |->
                 IF z = 1 THEN "H" ELSE IF z = 6 THEN "C" ELSE IF z = 7 THEN "N" ELSE "O"]

\* Python's None object, and what str() makes of it.
PyNone == "<None>"
StrNone == "None"

\* dict.get: the value, or None for a missing key.
atom_types_get(z) == IF z \in DOMAIN atom_types THEN atom_types[z] ELSE PyNone

\* Lines 84-88 on the flattened Z field.  np.vectorize without otypes
\* refuses a size 0 input; otherwise it takes the output type from the
\* function's value on the first element: an object array when that is None
\* (a missing atomic number stays None), a string array when it is a symbol
\* (a later None is converted with str()).
z_to_labels(Z) ==
    IF Len(Z) = 0 THEN Raised("ValueError")
    ELSE IF atom_types_get(Z[1]) = PyNone
         THEN Ok([i \in 1..Len(Z) |-> atom_types_get(Z[i])])
         ELSE Ok([i \in 1..Len(Z) |->
                    IF atom_types_get(Z[i]) = PyNone THEN StrNone ELSE atom_types_get(Z[i])])

SeqsUpTo(S, n) == UNION {[1..k -> S] : k \in 0..n}

InitLabels ==
    /\ zField \in SeqsUpTo(ZValues, MaxZLen)
    /\ labelsOut = Pending

Labels ==
    /\ labelsOut = Pending
    /\ labelsOut' = z_to_labels(zField)
    /\ UNCHANGED <<zField, loaderVars, icVars, extractVars, renderVars>>

\* C4: z_to_labels fails whenever the Z field holds an atomic number outside
\* the lookup {1, 6, 7, 8}; it returns no label sequence for such a field.
C4_UnknownElementRejected ==
    (labelsOut # Pending /\ \E i \in 1..Len(zField) : zField[i] \notin {1, 6, 7, 8})
        => labelsOut.tag = "error"

-----------------------------------------------------------------------------
(* Internal coordinates: get_internal_coords                               *)

\* Most conformations in a coordinates input.
MaxConf == 2

\* Longest index tuple explored.
MaxArity == 5

\* Number of grid points of the circle on which angles are taken.
AngleSteps == 12

AngleGrid == 360 \div AngleSteps

\* A geometry (one conformation's positions): its number of atoms and a code
\* standing for the positions.
GeomCodes == 0..(AngleSteps - 1)

Geometry(n, g) == [n |-> n, g |-> g]

RECURSIVE SumSeq(_)
SumSeq(s) == IF Len(s) = 0 THEN 0 ELSE s[1] + SumSeq(SubSeq(s, 2, Len(s)))

\* What the positions and the chosen atoms determine: a grid point.
Measure(xyz, indices) == (xyz.g + SumSeq(indices)) % AngleSteps

\* ase.Atoms.get_dihedral: degrees in [0, 360).
ase_get_dihedral(xyz, indices) == Measure(xyz, indices) * AngleGrid

\* ase.Atoms.get_angle: degrees in [0, 180].
ase_get_angle(xyz, indices) == (Measure(xyz, indices) * AngleGrid) \div 2

\* ase.Atoms.get_distance: a length, not negative.
ase_get_distance(xyz, indices) == Measure(xyz, indices) + 1

\* A variant fold that shifts a reflex angle by 180 degrees.
fold_dihedral_shift(var) == IF var > 180 THEN var - 180 ELSE var

\* Lines 251-252.
fold_dihedral(var) == IF var > 180 THEN 360 - var ELSE var

\* One pass of the loop body, lines 248-261.  ase.Atoms refuses symbols and
\* positions of different lengths; an atom index outside the molecule is an
\* IndexError.  The index tuples drawn hold distinct atoms.
ic_value(xyz, labels, indices) ==
    IF Len(labels) # xyz.n THEN Raised("ValueError: ase.Atoms")
    ELSE IF Len(indices) \in {2, 3, 4} /\ \E k \in 1..Len(indices) : indices[k] >= xyz.n
         THEN Raised("IndexError")
    ELSE IF Len(indices) = 4 THEN Ok(fold_dihedral(ase_get_dihedral(xyz, indices)))
    ELSE IF Len(indices) = 3 THEN Ok(ase_get_angle(xyz, indices))
    ELSE IF Len(indices) = 2 THEN Ok(ase_get_distance(xyz, indices))
    ELSE Raised("ValueError: Invalid atoms selection")

\* Lines 245-263: the loop over the conformations.  The first pass that
\* raises ends the call; with no conformation the body never runs and the
\* empty array is returned.
get_internal_coords(coords, labels, indices) ==
    LET passes == [i \in 1..Len(coords) |-> ic_value(coords[i], labels, indices)]
    IN IF \E i \in 1..Len(coords) : passes[i].tag = "error"
       THEN passes[CHOOSE i \in 1..Len(coords) :
                     passes[i].tag = "error" /\ \A j \in 1..(i-1) : passes[j].tag = "ok"]
       ELSE Ok([i \in 1..Len(coords) |-> passes[i].val])

\* The index tuples explored: 0, 0-1, 0-1-2, ...
IndexPrefix(k) == [i \in 1..k |-> i - 1]

InitIC ==
    /\ icLabels = [i \in 1..MaxArity |-> "C"]
    /\ icCoords \in UNION {[1..k -> {Geometry(MaxArity, g) : g \in GeomCodes}] : k \in 0..MaxConf}
    /\ icIndices \in {IndexPrefix(k) : k \in 1..MaxArity}
    /\ icOut = Pending

InternalCoords ==
    /\ icOut = Pending
    /\ icOut' = get_internal_coords(icCoords, icLabels, icIndices)
    /\ UNCHANGED <<icCoords, icLabels, icIndices, loaderVars, labelVars, extractVars, renderVars>>

\* C3: get_internal_coords with an index tuple whose length is not 2, 3 or 4
\* fails for every coordinates input, the one with no conformation included.
C3_InvalidArityRejected ==
    (icOut # Pending /\ Len(icIndices) \notin {2, 3, 4}) => icOut.tag = "error"

\* The raw dihedral of conformation i of the call.
RawDihedral(i) == ase_get_dihedral(icCoords[i], icIndices)

\* C9: for an index tuple of four atoms each returned value is the raw
\* dihedral d when d <= 180 and 360 - d when d > 180; so it lies in [0, 180],
\* d and its mirror 360 - d give the same value, and folding a returned
\* value again changes nothing.
C9_DihedralFold ==
    (icOut.tag = "ok" /\ Len(icIndices) = 4) =>
        /\ Len(icOut.val) = Len(icCoords)
        /\ \A i \in 1..Len(icCoords) :
            /\ RawDihedral(i) \in 0..359
            /\ icOut.val[i] = (IF RawDihedral(i) <= 180 THEN RawDihedral(i)
                               ELSE 360 - RawDihedral(i))
            /\ icOut.val[i] \in 0..180
            /\ fold_dihedral(icOut.val[i]) = icOut.val[i]
            /\ \A j \in 1..Len(icCoords) :
                 RawDihedral(i) + RawDihedral(j) = 360 => icOut.val[j] = icOut.val[i]

\* A call on two conformations whose raw dihedrals are a reflex angle and
\* its mirror.
C9_Witness ==
    /\ icOut.tag = "ok" /\ Len(icIndices) = 4 /\ Len(icCoords) = 2
    /\ RawDihedral(1) > 180
    /\ RawDihedral(2) = 360 - RawDihedral(1)
    /\ icOut.val[1] = icOut.val[2]

-----------------------------------------------------------------------------
(* The dataset and the tables                                              *)

\* Number of vibrational modes of the datasets explored (FREQ's second axis).
NModes == 2

\* Number of polarizability components of the datasets explored (P's second
\* axis).
PolarComps == 2

\* Atomic numbers of the molecules explored, one per atom.
ZMolecules == {<<6, 1, 1, 8>>, <<8, 6, 7, 1, 1>>}

\* What a conformation of a dataset is drawn from: the code of its geometry
\* and its conformation family.
ConformationKinds == {<<1, 0>>, <<5, 0>>, <<5, 1>>}

\* A number the archive holds for geometry code g at component k.
Val(g, k) == ((g * 3 + k * 5) % 7) - 3

\* The archive as np.load gives it (line 64): field |-> array, an array a
\* sequence along its first axis.  zrows is the length of Z's first axis.
MakeDataset(zrow, zrows, gs, cs) ==
    [ Z    |-> [r \in 1..zrows |-> zrow],
      R    |-> [i \in 1..Len(gs) |-> Geometry(Len(zrow), gs[i])],
      CONF |-> [i \in 1..Len(gs) |-> <<cs[i]>>],
      E    |-> [i \in 1..Len(gs) |-> <<Val(gs[i], 0)>>],
      Q    |-> [i \in 1..Len(gs) |-> [a \in 1..Len(zrow) |-> Val(gs[i], a)]],
      F    |-> [i \in 1..Len(gs) |-> [a \in 1..Len(zrow) |->
                   [x \in 1..3 |-> Val(gs[i], a + x)]]],
      DP   |-> [i \in 1..Len(gs) |-> [x \in 1..3 |-> Val(gs[i], x)]],
      QP   |-> [i \in 1..Len(gs) |-> [x \in 1..3 |-> [y \in 1..3 |-> Val(gs[i], x + y)]]],
      P    |-> [i \in 1..Len(gs) |-> [k \in 1..PolarComps |-> Val(gs[i], k + 1)]],
      FREQ |-> [i \in 1..Len(gs) |-> [m \in 1..NModes |-> Val(gs[i], m + 2)]],
      ETH  |-> [i \in 1..Len(gs) |-> [t \in 1..3 |-> Val(gs[i], t + 3)]],
      HL   |-> [i \in 1..Len(gs) |-> <<Val(gs[i], 1), Val(gs[i], 2)>>],
      R2   |-> [i \in 1..Len(gs) |-> <<Val(gs[i], 4)>>] ]

\* The datasets explored.  Z holds the molecule's atomic numbers once, or once
\* per conformation (the conformation axis every other field has).
Datasets ==
    UNION { { MakeDataset(zrow, zrows, [i \in 1..n |-> ks[i][1]], [i \in 1..n |-> ks[i][2]]) :
                zrow \in ZMolecules, zrows \in {1, n}, ks \in [1..n -> ConformationKinds] } :
            n \in 1..MaxConf }

\* ndarray.flatten() of a two axis array.
RECURSIVE flatten(_)
flatten(a) == IF Len(a) = 0 THEN <<>> ELSE a[1] \o flatten(SubSeq(a, 2, Len(a)))

\* Line 82: conf, read by every extractor.
conf_of(dataset) == flatten(dataset.CONF)

\* A pandas DataFrame: the column names in order, the number of rows, and
\* each column's values.
Table(columns, nrows, col) == [columns |-> columns, nrows |-> nrows, col |-> col]

\* The indices of a set, ascending.
RECURSIVE Ascending(_)
Ascending(S) ==
    IF S = {} THEN <<>>
    ELSE LET m == CHOOSE x \in S : \A y \in S : x <= y
         IN <<m>> \o Ascending(S \ {m})

\* df[mask]: the rows whose index is in keep, in order.
select_rows(t, keep) ==
    LET kept == Ascending(keep)
    IN Table(t.columns, Len(kept),
             [c \in DOMAIN t.col |-> [k \in 1..Len(kept) |-> t.col[c][kept[k]]]])

\* pd.DataFrame(values, columns=names); df['Conformation'] = conf;
\* pd.melt(df, id_vars='Conformation', var_name=..., value_name=...): one
\* row per (column, row), all rows of the first column first.
melt(values, names, conf, var_name, value_name) ==
    LET n == Len(values)
        m == Len(names)
        rowOf(k) == ((k - 1) % n) + 1
        colOf(k) == ((k - 1) \div n) + 1
    IN Table(<<"Conformation", var_name, value_name>>, m * n,
             [c \in {"Conformation", var_name, value_name} |->
                [k \in 1..(m * n) |->
                   IF c = "Conformation" THEN conf[rowOf(k)]
                   ELSE IF c = var_name THEN names[colOf(k)]
                   ELSE values[rowOf(k)][colOf(k)]]])

\* pd.DataFrame({name: values, 'Conformation': conf}), or df['Conformation']
\* = conf on a one column frame.
two_columns(name, values, conf) ==
    Table(<<name, "Conformation">>, Len(values),
          [c \in {name, "Conformation"} |-> IF c = name THEN values ELSE conf])

\* The largest k with k * k <= s: a norm on the integer grid.
isqrt(s) == CHOOSE k \in 0..s : k * k <= s /\ (k + 1) * (k + 1) > s

RECURSIVE SumSq(_)
SumSq(v) == IF Len(v) = 0 THEN 0 ELSE v[1] * v[1] + SumSq(SubSeq(v, 2, Len(v)))

-----------------------------------------------------------------------------
(* Property extractors                                                     *)

\* Lines 108-116.
fnorm_types == [k \in {"total", "Fx", "Fy", "Fz"} |->
                  IF k = "total" THEN <<1, 2, 3>> ELSE IF k = "Fx" THEN <<1>>
                  ELSE IF k = "Fy" THEN <<2>> ELSE <<3>>]

process_force_data(dataset, radio_selection) ==
    LET axes == fnorm_types[radio_selection]
        picked(i) == flatten([a \in 1..Len(dataset.F[i]) |->
                                [x \in 1..Len(axes) |-> dataset.F[i][a][axes[x]]]])
        forces_norm == [i \in 1..Len(dataset.F) |-> isqrt(SumSq(picked(i)))]
    IN two_columns("Forces", forces_norm, conf_of(dataset))

\* Lines 90-106.  A label is an element symbol followed by digits and the
\* filter is an element symbol, so the label contains the filter when its
\* element is the filter.
process_mulliken_data(dataset, atom_type_filter) ==
    LET n_atoms == Len(dataset.Q[1])
        atom_labels == z_to_labels(flatten(dataset.Z)).val
        col_names == [i \in 1..n_atoms |-> atom_labels[i] \o ToString(i)]
        long == melt(dataset.Q, col_names, conf_of(dataset), "atom_labels", "Mulliken charges")
        atomOf(k) == ((k - 1) \div Len(dataset.Q)) + 1
    IN IF atom_type_filter # "None"
       THEN select_rows(long, {k \in 1..long.nrows : atom_labels[atomOf(k)] = atom_type_filter})
       ELSE long

\* The options of the atom type filter, line 101.
atom_filter_options(dataset) ==
    {"None"} \cup {z_to_labels(flatten(dataset.Z)).val[i] : i \in 1..Len(flatten(dataset.Z))}

\* Lines 118-126.
process_dipole_data(dataset, radio_selection) ==
    LET dipoles == [i \in 1..Len(dataset.DP) |->
                      IF radio_selection = "total" THEN isqrt(SumSq(dataset.DP[i]))
                      ELSE IF radio_selection = "Dx" THEN dataset.DP[i][1]
                      ELSE IF radio_selection = "Dy" THEN dataset.DP[i][2]
                      ELSE dataset.DP[i][3]]
    IN two_columns("Dipole moment", dipoles, conf_of(dataset))

\* Lines 128-137.
process_quadrupole_data(dataset, radio_selection) ==
    LET entry == [k \in {"XX", "YY", "ZZ", "XY", "XZ", "YZ"} |->
                    IF k = "XX" THEN <<1, 1>> ELSE IF k = "YY" THEN <<2, 2>>
                    ELSE IF k = "ZZ" THEN <<3, 3>> ELSE IF k = "XY" THEN <<1, 2>>
                    ELSE IF k = "XZ" THEN <<1, 3>> ELSE <<2, 3>>]
        quadrupoles == [i \in 1..Len(dataset.QP) |->
                          IF radio_selection = "norm" THEN isqrt(SumSq(flatten(dataset.QP[i])))
                          ELSE dataset.QP[i][entry[radio_selection][1]][entry[radio_selection][2]]]
    IN two_columns("Quadrupole moment", quadrupoles, conf_of(dataset))

\* Lines 139-146: the columns of pd.DataFrame(polar) are 0, 1, ...
process_polar_data(dataset) ==
    melt(dataset.P, [k \in 1..Len(dataset.P[1]) |-> k - 1], conf_of(dataset),
         "components", "Polarizability")

\* A variant mode filter that counts the modes from one.
process_freq_data_from_one(dataset, select_mode) ==
    LET n_modes == Len(dataset.FREQ[1])
        long == melt(dataset.FREQ, [m \in 1..n_modes |-> m - 1], conf_of(dataset),
                     "modes", "Vibrational frequencies")
    IN select_rows(long, {k \in 1..long.nrows : long.col["modes"][k] + 1 = select_mode})

\* Lines 148-159: select_mode is the slider's value, 0..n_modes.
process_freq_data(dataset, select_mode) ==
    LET n_modes == Len(dataset.FREQ[1])
        long == melt(dataset.FREQ, [m \in 1..n_modes |-> m - 1], conf_of(dataset),
                     "modes", "Vibrational frequencies")
    IN select_rows(long, {k \in 1..long.nrows : long.col["modes"][k] = select_mode})

\* Line 163.
energy_types == <<"energies", "enthalpies", "free energies">>

\* A variant type filter that keeps every row when nothing is selected.
process_thermal_data_default_all(dataset, check_boxes) ==
    LET long == melt(dataset.ETH, energy_types, conf_of(dataset),
                     "types", "Electronic + thermal")
        selected_types == {energy_types[t] : t \in {u \in 1..3 : check_boxes[u]}}
    IN IF selected_types = {} THEN long
       ELSE select_rows(long, {k \in 1..long.nrows : long.col["types"][k] \in selected_types})

\* Lines 161-173: check_boxes holds the three checkboxes' values.
process_thermal_data(dataset, check_boxes) ==
    LET long == melt(dataset.ETH, energy_types, conf_of(dataset),
                     "types", "Electronic + thermal")
        selected_types == {energy_types[t] : t \in {u \in 1..3 : check_boxes[u]}}
    IN select_rows(long, {k \in 1..long.nrows : long.col["types"][k] \in selected_types})

\* min of a sequence of numbers.
seq_min(v) == CHOOSE x \in {v[i] : i \in 1..Len(v)} : \A i \in 1..Len(v) : x <= v[i]

seq_max(v) == CHOOSE x \in {v[i] : i \in 1..Len(v)} : \A i \in 1..Len(v) : x >= v[i]

\* Lines 175-199.  A name no branch matches leaves df unbound, and line 196
\* raises UnboundLocalError.  Every frame the branches build either has the
\* Conformation column or gets it at line 197.
data_to_plot(dataset, property, selection) ==
    IF property = "Potential energy"
    THEN Ok(two_columns("Potential energy",
                        [i \in 1..Len(dataset.E) |->
                           dataset.E[i][1] - seq_min(flatten(dataset.E))],
                        conf_of(dataset)))
    ELSE IF property = "Forces" THEN Ok(process_force_data(dataset, selection))
    ELSE IF property = "Mulliken charges" THEN Ok(process_mulliken_data(dataset, selection))
    ELSE IF property = "Dipole moment" THEN Ok(process_dipole_data(dataset, selection))
    ELSE IF property = "Quadrupole moment" THEN Ok(process_quadrupole_data(dataset, selection))
    ELSE IF property = "Polarizability" THEN Ok(process_polar_data(dataset))
    ELSE IF property = "HOMO-LUMO gap"
    THEN Ok(two_columns("HOMO-LUMO gap",
                        [i \in 1..Len(dataset.HL) |-> dataset.HL[i][2] - dataset.HL[i][1]],
                        conf_of(dataset)))
    ELSE IF property = "Electronic spatial extent"
    THEN Ok(two_columns("Electronic spatial extent", flatten(dataset.R2), conf_of(dataset)))
    ELSE Raised("UnboundLocalError")

\* Lines 296-297: the names the property selector offers.
properties == <<"Potential energy", "Forces", "Mulliken charges", "Dipole moment",
                "Quadrupole moment", "Polarizability", "HOMO-LUMO gap",
                "Electronic spatial extent">>

\* The property names of the extractor's contract: the selector's and the two
\* whose extractors lines 148-173 define.
PropertyNames ==
    {properties[i] : i \in 1..Len(properties)}
        \cup {"Vibrational frequencies", "Electronic + thermal energies"}

\* The values the widget an extractor reads can have (one radio at most).
SelectionOptions(dataset, property) ==
    IF property = "Forces" THEN DOMAIN fnorm_types
    ELSE IF property = "Mulliken charges" THEN atom_filter_options(dataset)
    ELSE IF property = "Dipole moment" THEN {"total", "Dx", "Dy", "Dz"}
    ELSE IF property = "Quadrupole moment" THEN {"norm", "XX", "YY", "ZZ", "XY", "XZ", "YZ"}
    ELSE {"-"}

\* Lines 288-294: one row per conformation family, ascending.  Of describe()'s
\* columns the count, min and max are kept, with the group's sum for the mean
\* and twice the median; the deviation and the quartiles are left out.
build_stats(dataframe, feature) ==
    LET ids == Ascending({dataframe.col["Conformation"][k] : k \in 1..dataframe.nrows})
        RECURSIVE total(_)
        total(v) == IF Len(v) = 0 THEN 0 ELSE v[1] + total(SubSeq(v, 2, Len(v)))
        below(v, x) == Cardinality({j \in 1..Len(v) : v[j] < x})
        above(v, x) == Cardinality({j \in 1..Len(v) : v[j] > x})
        lowMid(v) == CHOOSE x \in {v[j] : j \in 1..Len(v)} :
                        below(v, x) <= (Len(v) - 1) \div 2 /\ above(v, x) <= Len(v) \div 2
        highMid(v) == CHOOSE x \in {v[j] : j \in 1..Len(v)} :
                        below(v, x) <= Len(v) \div 2 /\ above(v, x) <= (Len(v) - 1) \div 2
    IN [i \in 1..Len(ids) |->
          LET group == Ascending({k \in 1..dataframe.nrows :
                                    dataframe.col["Conformation"][k] = ids[i]})
              vals == [j \in 1..Len(group) |-> dataframe.col[feature][group[j]]]
          IN [Conformation |-> ids[i],
              count |-> Len(vals),
              min |-> seq_min(vals),
              max |-> seq_max(vals),
              sum |-> total(vals),
              median2 |-> lowMid(vals) + highMid(vals)]]

\* The value column of a table: the one that is neither the Conformation
\* column nor the melt's variable column.
value_column(t) ==
    t.columns[CHOOSE i \in 1..Len(t.columns) :
                t.columns[i] \notin {"Conformation", "atom_labels", "components", "modes", "types"}]

NoStats == [shown |-> FALSE]

InitCallIdle == call = [fn |-> "none"] /\ df = Pending /\ stats = NoStats

InitExtract == data \in Datasets /\ InitCallIdle

\* Line 300: df = data_to_plot(property_name)
DataToPlot ==
    /\ df = Pending
    /\ \E property \in PropertyNames :
         \E selection \in SelectionOptions(data, property) :
            /\ call' = [fn |-> "data_to_plot", property |-> property, selection |-> selection]
            /\ df' = data_to_plot(data, property, selection)
    /\ UNCHANGED <<data, stats, loaderVars, labelVars, icVars, renderVars>>

\* process_freq_data on the dataset, with the mode slider at any value it
\* allows (line 156).
ProcessFreq ==
    /\ df = Pending
    /\ \E select_mode \in 0..Len(data.FREQ[1]) :
            /\ call' = [fn |-> "process_freq_data", select_mode |-> select_mode]
            /\ df' = Ok(process_freq_data(data, select_mode))
    /\ UNCHANGED <<data, stats, loaderVars, labelVars, icVars, renderVars>>

\* process_thermal_data on the dataset, with the three checkboxes at any
\* values (line 169).
ProcessThermal ==
    /\ df = Pending
    /\ \E check_boxes \in [1..3 -> BOOLEAN] :
            /\ call' = [fn |-> "process_thermal_data", check_boxes |-> check_boxes]
            /\ df' = Ok(process_thermal_data(data, check_boxes))
    /\ UNCHANGED <<data, stats, loaderVars, labelVars, icVars, renderVars>>

\* Lines 323-325: the statistics are built for a table that has rows.  An
\* exception of the extractor has ended the pass before.
Stats ==
    /\ df.tag = "ok"
    /\ stats = NoStats
    /\ call.fn # "none"
    /\ stats' = IF df.val.nrows # 0
                THEN [shown |-> TRUE, table |-> build_stats(df.val, value_column(df.val))]
                ELSE [shown |-> FALSE, skipped |-> TRUE]
    /\ UNCHANGED <<data, call, df, loaderVars, labelVars, icVars, renderVars>>

NextExtract == DataToPlot \/ ProcessFreq \/ ProcessThermal \/ Stats

\* Shapes of the dataset in hand.
NConf == Len(data.R)
NAtoms == Len(data.Q[1])

\* The contract's row count of a property before any filtering.
ContractRows(property) ==
    IF property = "Mulliken charges" THEN NConf * NAtoms
    ELSE IF property = "Vibrational frequencies" THEN NConf * Len(data.FREQ[1])
    ELSE IF property = "Polarizability" THEN NConf * Len(data.P[1])
    ELSE IF property = "Electronic + thermal energies" THEN NConf * 3
    ELSE NConf

\* C5: for every property name of the contract data_to_plot returns a table
\* with a Conformation column whose row count, before any filtering, is the
\* conformation count, times the atom count for a per-atom property, times
\* the mode (or component) count for a per-mode (or per-component) property.
C5_EveryPropertyExtracted ==
    (call.fn = "data_to_plot") =>
        /\ df.tag = "ok"
        /\ \E i \in 1..Len(df.val.columns) : df.val.columns[i] = "Conformation"
        /\ (call.selection \in {"-", "None", "total", "norm", "Fx", "Fy", "Fz", "Dx", "Dy", "Dz",
                                "XX", "YY", "ZZ", "XY", "XZ", "YZ"})
              => df.val.nrows = ContractRows(call.property)

\* The checkboxes that are ticked, as energy types.
TickedTypes == {energy_types[t] : t \in {u \in 1..3 : call.check_boxes[u]}}

\* The rows of a table whose column c holds x, ascending.
RowsWith(t, c, x) == Ascending({k \in 1..t.nrows : t.col[c][k] = x})

C10_FreqModeFilter ==
    (call.fn = "process_freq_data") =>
        /\ df.tag = "ok"
        /\ call.select_mode \in 0..Len(data.FREQ[1])
        /\ (call.select_mode < Len(data.FREQ[1])) =>
              /\ df.val.nrows = NConf
              /\ \A i \in 1..NConf :
                    /\ df.val.col["modes"][i] = call.select_mode
                    /\ df.val.col["Conformation"][i] = data.CONF[i][1]
                    /\ df.val.col["Vibrational frequencies"][i]
                          = data.FREQ[i][call.select_mode + 1]
        /\ (call.select_mode = Len(data.FREQ[1])) => df.val.nrows = 0

\* process_freq_data called with the selector on the last mode of a dataset
\* of several conformations.
C10_Witness ==
    /\ call.fn = "process_freq_data"
    /\ NConf >= 2
    /\ call.select_mode = Len(data.FREQ[1]) - 1
    /\ df.tag = "ok" /\ df.val.nrows = NConf

-----------------------------------------------------------------------------
(* The geometry tab and the molecule viewer                                *)

\* Most specs joined by '-' in the text input.
MaxSpecs == 2

Digits == <<"0", "1", "2", "3", "4", "5", "6", "7", "8", "9">>

\* str.split(sep) for a one character separator.
RECURSIVE split(_, _)
split(s, sep) ==
    IF \E i \in 1..Len(s) : s[i] = sep
    THEN LET p == CHOOSE i \in 1..Len(s) : s[i] = sep /\ \A j \in 1..(i-1) : s[j] # sep
         IN <<SubSeq(s, 1, p - 1)>> \o split(SubSeq(s, p + 1, Len(s)), sep)
    ELSE <<s>>

\* str.strip() of blanks.
RECURSIVE strip(_)
strip(s) ==
    IF Len(s) = 0 THEN s
    ELSE IF s[1] = " " THEN strip(SubSeq(s, 2, Len(s)))
    ELSE IF s[Len(s)] = " " THEN strip(SubSeq(s, 1, Len(s) - 1))
    ELSE s

RECURSIVE digits_value(_)
digits_value(s) ==
    IF Len(s) = 0 THEN 0
    ELSE 10 * digits_value(SubSeq(s, 1, Len(s) - 1))
         + (CHOOSE d \in 0..9 : Digits[d + 1] = s[Len(s)])

\* int() of a text of digits, blanks around it allowed; anything else (the
\* empty text too) is a ValueError.
py_int(s) ==
    LET t == strip(s)
    IN IF Len(t) > 0 /\ \A i \in 1..Len(t) : \E d \in 1..10 : Digits[d] = t[i]
       THEN Ok(digits_value(t))
       ELSE Raised("ValueError: int")

\* Line 270: [int(i) for i in ic.strip().split(',')]
parse_indices(ic) ==
    LET parts == split(strip(ic), ",")
    IN IF \E k \in 1..Len(parts) : py_int(parts[k]).tag = "error"
       THEN Raised("ValueError: int")
       ELSE Ok([k \in 1..Len(parts) |-> py_int(parts[k]).val])

\* '-'.join(labels), labels a sequence of strings.
RECURSIVE join_dash(_)
join_dash(labels) ==
    IF Len(labels) = 0 THEN ""
    ELSE IF Len(labels) = 1 THEN labels[1]
    ELSE labels[1] \o "-" \o join_dash(SubSeq(labels, 2, Len(labels)))

\* A variant column name that numbers the atoms from one, as the Mulliken
\* labels do.
ic_col_name_from_one(atom_labels, atom_indices) ==
    join_dash([k \in 1..Len(atom_indices) |->
                 atom_labels[atom_indices[k] + 1] \o ToString(atom_indices[k] + 1)])

\* Lines 275-277: element and 0-based index of each atom, joined by '-'.
ic_col_name(atom_labels, atom_indices) ==
    join_dash([k \in 1..Len(atom_indices) |->
                 atom_labels[atom_indices[k] + 1] \o ToString(atom_indices[k])])

\* df[name] = values: a new column goes last, an existing one is replaced
\* where it stands.  The values here all have the dataset's length.
set_column(t, name, values) ==
    Table(IF \E i \in 1..Len(t.columns) : t.columns[i] = name
          THEN t.columns ELSE Append(t.columns, name),
          Len(values),
          [c \in DOMAIN t.col \cup {name} |-> IF c = name THEN values ELSE t.col[c]])

\* pd.DataFrame()
EmptyTable == Table(<<>>, 0, <<>>)

\* Lines 269-278: the loop over the specs, from the frame built so far.
RECURSIVE ic_loop(_, _, _)
ic_loop(dataset, selected_coords, t) ==
    IF Len(selected_coords) = 0 THEN Ok(t)
    ELSE LET atom_indices == parse_indices(selected_coords[1])
             atom_labels == z_to_labels(flatten(dataset.Z))
             values == get_internal_coords(dataset.R, atom_labels.val, atom_indices.val)
         IN IF atom_indices.tag = "error" THEN atom_indices
            ELSE IF atom_labels.tag = "error" THEN atom_labels
            ELSE IF values.tag = "error" THEN values
            ELSE IF \E k \in 1..Len(atom_indices.val) :
                       atom_indices.val[k] >= Len(atom_labels.val)
                 THEN Raised("IndexError")
            ELSE ic_loop(dataset, SubSeq(selected_coords, 2, Len(selected_coords)),
                         set_column(t, ic_col_name(atom_labels.val, atom_indices.val),
                                    values.val))

\* Lines 265-280.
build_ic_dataframe(dataset, selected_coords) ==
    LET looped == ic_loop(dataset, selected_coords, EmptyTable)
    IN IF looped.tag = "error" THEN looped
       ELSE Ok(set_column(looped.val, "Conformation", conf_of(dataset)))

\* The positions a geometry code stands for: atom a's coordinate on axis x.
Coord(g, a, x) == ((g + a + x) % 5) - 2

\* '{:<6s}': the label, then blanks up to six characters.
pad6(l) == IF l = StrNone THEN l \o "  " ELSE l \o "     "

\* '{:12.8f}' of a grid coordinate: eight decimals, right justified in
\* twelve characters.
f12(c) == IF c < 0 THEN " -" \o ToString(0 - c) \o ".00000000"
          ELSE "  " \o ToString(c) \o ".00000000"

\* Line 207 and 212: mask.format(l, *atom_coords), without its line break.
atom_line(l, g, a) ==
    pad6(l) \o " " \o f12(Coord(g, a, 1)) \o " " \o f12(Coord(g, a, 2)) \o " "
        \o f12(Coord(g, a, 3)) \o " "

Min(a, b) == IF a <= b THEN a ELSE b

\* A variant writer that takes the atom count from the coordinates' first
\* axis.
create_xyz_count_confs(dataset, index) ==
    LET atom_labels == z_to_labels(flatten(dataset.Z))
        n_atoms == Len(dataset.R)
        xyz == dataset.R[index + 1]
    IN IF atom_labels.tag = "error" THEN atom_labels
       ELSE IF index >= Len(dataset.R) THEN Raised("IndexError")
       ELSE Ok(<<ToString(n_atoms), "">> \o
               [a \in 1..Min(Len(atom_labels.val), xyz.n) |->
                  atom_line(atom_labels.val[a], xyz.g, a)])

\* Lines 201-213, the text as its lines.  dataset['R'][[index]] is the one
\* geometry at index, and the slice 0:n_atoms of that one element array
\* keeps it; the loop body runs once.  zip stops at the shorter of the
\* labels and the geometry's atoms.
create_xyz(dataset, index) ==
    LET atom_labels == z_to_labels(flatten(dataset.Z))
        n_atoms == Len(atom_labels.val)
        xyz == dataset.R[index + 1]
    IN IF atom_labels.tag = "error" THEN atom_labels
       ELSE IF index >= Len(dataset.R) THEN Raised("IndexError")
       ELSE Ok(<<ToString(n_atoms), "">> \o
               [a \in 1..Min(Len(atom_labels.val), xyz.n) |->
                  atom_line(atom_labels.val[a], xyz.g, a)])

\* Lines 215-243: the geometry text of the returned pair.
view_molecule(dataset, index) == create_xyz(dataset, index)

\* The specs typed into the text input, line 329.
Text_1023 == <<"1", ",", "0", ",", "2", ",", "3">>
Text_01 == <<"0", ",", "1">>
Text_01_blank == <<" ", "0", ",", " ", "1">>
Text_210 == <<"2", ",", "1", ",", "0">>
Text_3 == <<"3">>
Text_09 == <<"0", ",", "9">>

SpecTexts == {Text_1023, Text_01, Text_01_blank, Text_210, Text_3, Text_09}

RECURSIVE JoinTexts(_)
JoinTexts(ts) ==
    IF Len(ts) = 1 THEN ts[1] ELSE ts[1] \o <<"-">> \o JoinTexts(SubSeq(ts, 2, Len(ts)))

CoordTexts == {JoinTexts(ts) : ts \in UNION {[1..k -> SpecTexts] : k \in 1..MaxSpecs}}

InitRender ==
    /\ data \in Datasets
    /\ coordsText \in CoordTexts
    /\ icdf = Pending
    /\ icStats = NoStats
    /\ idx = 0
    /\ xyzGeom = Pending
    /\ pc = "tab_geoms"

\* Lines 329-348: the geometry tab.  An exception ends the script run.
TabGeoms ==
    /\ pc = "tab_geoms"
    /\ \E built \in {build_ic_dataframe(data, split(coordsText, "-"))} :
          /\ icdf' = built
          /\ IF built.tag = "error"
             THEN pc' = "halted" /\ icStats' = icStats
             ELSE /\ pc' = "viewer"
                  /\ \E c \in 1..(Len(built.val.columns) - 1) :
                        icStats' = IF built.val.nrows # 0
                                   THEN [shown |-> TRUE, feature |-> built.val.columns[c],
                                         table |-> build_stats(built.val, built.val.columns[c])]
                                   ELSE [shown |-> FALSE, skipped |-> TRUE]
    /\ UNCHANGED <<data, coordsText, idx, xyzGeom, call, df, stats,
                   loaderVars, labelVars, icVars>>

\* Lines 356-368: the viewer, the slider at any value it allows.
Viewer ==
    /\ pc = "viewer"
    /\ \E i \in 1..Len(data.R) :
          /\ idx' = i
          /\ xyzGeom' = view_molecule(data, i - 1)
    /\ pc' = IF xyzGeom'.tag = "error" THEN "halted" ELSE "done"
    /\ UNCHANGED <<data, coordsText, icdf, icStats, call, df, stats,
                   loaderVars, labelVars, icVars>>

NextRender == TabGeoms \/ Viewer

\* The specs of the text input and the index tuples they parse to.
TypedSpecs == split(coordsText, "-")
TypedTuples == [j \in 1..Len(TypedSpecs) |-> parse_indices(TypedSpecs[j]).val]

\* The element symbol of atom a (0-based) of the molecule.
ElementOf(a) == atom_types[data.Z[1][a + 1]]

\* The name the contract gives the column of an index tuple.
RECURSIVE ContractName(_)
ContractName(tuple) ==
    IF Len(tuple) = 1 THEN ElementOf(tuple[1]) \o ToString(tuple[1])
    ELSE ElementOf(tuple[1]) \o ToString(tuple[1]) \o "-"
            \o ContractName(SubSeq(tuple, 2, Len(tuple)))

\* The value of an index tuple at conformation i.
ContractValue(tuple, i) ==
    IF Len(tuple) = 4
    THEN (IF ase_get_dihedral(data.R[i], tuple) > 180
          THEN 360 - ase_get_dihedral(data.R[i], tuple)
          ELSE ase_get_dihedral(data.R[i], tuple))
    ELSE IF Len(tuple) = 3 THEN ase_get_angle(data.R[i], tuple)
    ELSE ase_get_distance(data.R[i], tuple)

\* C6 as claimed: for any list of k valid index specs the table has exactly
\* one value column per spec, also when two specs are identical: k value
\* columns and the Conformation column.
C6_OneColumnPerSpec ==
    (icdf.tag = "ok") => Len(icdf.val.columns) = Len(TypedSpecs) + 1

\* C6 as amended: for any list of valid index specs the table has one value
\* column per distinct index tuple among the specs, named by joining
\* <element><0-based atom index> of the tuple's atoms with '-' and holding the
\* tuple's value for each conformation in dataset order, and the
\* Conformation column last, one row per conformation.
C6_OneColumnPerDistinctTuple ==
    (icdf.tag = "ok") =>
        /\ Len(icdf.val.columns) = Cardinality({TypedTuples[j] : j \in 1..Len(TypedSpecs)}) + 1
        /\ icdf.val.columns[Len(icdf.val.columns)] = "Conformation"
        /\ icdf.val.nrows = NConf
        /\ icdf.val.col["Conformation"] = [i \in 1..NConf |-> data.CONF[i][1]]
        /\ \A j \in 1..Len(TypedSpecs) :
              /\ \E p \in 1..(Len(icdf.val.columns) - 1) :
                    icdf.val.columns[p] = ContractName(TypedTuples[j])
              /\ icdf.val.col[ContractName(TypedTuples[j])]
                    = [i \in 1..NConf |-> ContractValue(TypedTuples[j], i)]
        /\ \A p \in 1..(Len(icdf.val.columns) - 1) :
              \E j \in 1..Len(TypedSpecs) : icdf.val.columns[p] = ContractName(TypedTuples[j])

\* A table built from two specs that parse to the same index tuple, for a
\* dataset of two conformations with different geometries.
C6_Witness ==
    /\ icdf.tag = "ok"
    /\ Len(TypedSpecs) = 2
    /\ TypedTuples[1] = TypedTuples[2]
    /\ Len(icdf.val.columns) = 2
    /\ NConf = 2 /\ data.R[1] # data.R[2]

\* C7: for every value of the geometry slider create_xyz returns a text of
\* one atom count line, one comment line and one line per atom of the
\* molecule, and the count on the first line is the number of atom lines,
\* the molecule's atom count, however many conformations there are.
C7_XyzAtomCount ==
    (pc # "viewer" => (xyzGeom # Pending <=> pc = "done")) /\
    (pc = "done" =>
        /\ xyzGeom.tag = "ok"
        /\ idx \in 1..NConf
        /\ Len(xyzGeom.val) = 2 + NAtoms
        /\ xyzGeom.val[1] = ToString(NAtoms)
        /\ xyzGeom.val[1] = ToString(Len(xyzGeom.val) - 2)
        /\ xyzGeom.val[2] = ""
        /\ \A a \in 1..NAtoms :
              xyzGeom.val[2 + a] = atom_line(ElementOf(a - 1), data.R[idx].g, a))

\* The text of the second geometry of a dataset of two conformations.
C7_Witness ==
    /\ pc = "done" /\ xyzGeom.tag = "ok"
    /\ NConf = 2 /\ idx = 2
    /\ Len(xyzGeom.val) = 2 + NAtoms

\* The parts a specification does not exercise stay as constructed.
InitLabelsIdle == zField = <<>> /\ labelsOut = Pending

InitICIdle == icCoords = <<>> /\ icLabels = <<>> /\ icIndices = <<>> /\ icOut = Pending

InitExtractIdle == data = <<>> /\ InitCallIdle

InitRenderIdle ==
    /\ coordsText = <<>> /\ icdf = Pending /\ icStats = NoStats
    /\ idx = 0 /\ xyzGeom = Pending /\ pc = "idle"

-----------------------------------------------------------------------------
(* Specifications                                                          *)

\* The loader under any sequence of calls.
LoaderInit == InitLoader /\ InitLabelsIdle /\ InitICIdle /\ InitExtractIdle /\ InitRenderIdle

SpecLoader == LoaderInit /\ [][Load]_vars

\* z_to_labels on any Z field.
LabelsInit == InitLabels /\ InitLoader /\ InitICIdle /\ InitExtractIdle /\ InitRenderIdle

SpecLabels == LabelsInit /\ [][Labels]_vars

\* get_internal_coords on any coordinates and index tuple.
ICInit == InitIC /\ InitLoader /\ InitLabelsIdle /\ InitExtractIdle /\ InitRenderIdle

SpecIC == ICInit /\ [][InternalCoords]_vars

\* The extractors on any dataset, and the statistics step after them.
ExtractInit == InitExtract /\ InitLoader /\ InitLabelsIdle /\ InitICIdle /\ InitRenderIdle

SpecExtract == ExtractInit /\ [][NextExtract]_vars

\* The geometry tab and the viewer of one script run.
RenderInit == InitRender /\ InitCallIdle /\ InitLoader /\ InitLabelsIdle /\ InitICIdle

SpecRender == RenderInit /\ [][NextRender]_vars

=============================================================================
